---- MODULE Spec2Model ----
(***************************************************************************)
(* Session guard of the HeroApp music front-end: the token cache in        *)
(* localStorage, the one-shot redirect flag in sessionStorage, the two     *)
(* init flows of home.js, the logout handler and the login form of         *)
(* login.js, as one browser tab that loads pages and receives responses.   *)
(***************************************************************************)
EXTENDS Integers, FiniteSets, Sequences, TLC

\* ---------------------------------------------------------------- bounds
MaxNow == 1          \* the clock runs over 0..MaxNow (epoch seconds)
MaxLife == 1         \* a token is issued with expiry now + LEEWAY + 0..MaxLife
MaxLogout == 1       \* logout requests in flight at the same time
SongCount == 3       \* songs in the catalogue behind GET /api/songs
MaxRequests == 3     \* list requests one load of the song page sends after its first
MaxRows == 3         \* rows (and distinct song ids) the home page grid is loaded with

\* ------------------------------------------------------- program constants
LEEWAY == 15         \* home.js:62 and home.js:68, "exp > nowEpoch() + 15"
DefaultPageSize == 9 \* signup.js:719 and home.js:486, "parseInt(...) || 9"

\* --------------------------------------------------------------- encodings
NoItem == -1         \* localStorage.getItem(key) === null
Empty == 0           \* the empty string "", also the falsy result of ensureAccessToken
Undefined == -2      \* a field the response body does not carry
NoRet == -3          \* ensureAccessToken did not return in this step
Profile == 1         \* the JSON payload of /api/me

Scripts == {1, 2}    \* the two IIFEs of home.js, each registers its own init

NoReq == [ep |-> "none", tok |-> Empty]
NoResp == [status |-> 0, data |-> [access_token |-> Undefined, access_expires_at |-> Undefined,
                                   refresh_token |-> Undefined, refresh_expires_at |-> Undefined]]

VARIABLES
  ls,           \* localStorage: the five auth.* keys
  redirecting,  \* sessionStorage "auth.redirecting" === "1"
  now,          \* nowEpoch()
  page,         \* the document shown in the tab: "login" or "home"
  navTarget,    \* navigation started by this page instance and not yet committed
  navCount,     \* window.location.replace calls made by this page instance
  pc,           \* position of each init flow of home.js, or the way it ended
  at,           \* the local `at` of each init flow while it is still read
  userBar,      \* #userBar with its logout button is in the document
  logoutPending,\* onLogout calls awaiting the logout response
  lpc,          \* position of the submit handler of login.js
  rejected,     \* the stored token legs were in storage when a refresh was answered 401
  ev,           \* what the last step did: requests, results, redirects
  before,       \* localStorage as it was when the running login/signup attempt began
  song,         \* song page: its `state` object and the list requests in flight
  grid,         \* home page songs grid: its `state` object and what renderGrid drew
  tabs          \* init flows of two tabs of home.html sharing localStorage

vars == <<ls, redirecting, now, page, navTarget, navCount, pc, at,
          userBar, logoutPending, lpc, rejected, ev,
          before, song, grid, tabs>>

\* ------------------------------------------------------------ localStorage
AllAbsent == [access |-> NoItem, accessExp |-> NoItem, refresh |-> NoItem,
              refreshExp |-> NoItem, me |-> NoItem]

\* String(n) of an integer and parseInt(s, 10) of that string; a missing
\* field is written as the string "undefined", which parses to NaN.
NaN == -4
StringOf(x) == IF x = Undefined THEN Undefined ELSE x
ParseInt(s) == IF s = Undefined THEN NaN ELSE s
\* JS ">" on numbers: any comparison with NaN is false
Gt(a, b) == a # NaN /\ b # NaN /\ a > b

OrZero(v) == IF v = NoItem \/ v = Empty THEN 0 ELSE v

getAT(st) == IF st.access = NoItem THEN Empty ELSE st.access
getATExp(st) == ParseInt(OrZero(st.accessExp))
getRT(st) == IF st.refresh = NoItem THEN Empty ELSE st.refresh
getRTExp(st) == ParseInt(OrZero(st.refreshExp))

Truthy(x) == x # Empty /\ x # Undefined /\ x # NoItem /\ x # NaN

\* the access leg is written only together with a refresh leg
saveTokens_onlyWithRefresh(st, data) ==
  IF Truthy(data.refresh_token) /\ Truthy(data.refresh_expires_at)
  THEN [st EXCEPT !.access = data.access_token,
                  !.accessExp = StringOf(data.access_expires_at),
                  !.refresh = data.refresh_token,
                  !.refreshExp = StringOf(data.refresh_expires_at)]
  ELSE st

\* "||" for "&&": one refresh field is enough to write the refresh leg
saveTokens_either(st, data) ==
  LET a == [st EXCEPT !.access = data.access_token,
                      !.accessExp = StringOf(data.access_expires_at)]
  IN IF Truthy(data.refresh_token) \/ Truthy(data.refresh_expires_at)
     THEN [a EXCEPT !.refresh = data.refresh_token,
                    !.refreshExp = StringOf(data.refresh_expires_at)]
     ELSE a

\* a response is stored only if its access token outlives the stored one
saveTokens_ifNewer(st, data) ==
  IF st.accessExp # NoItem /\ ~Gt(data.access_expires_at, ParseInt(st.accessExp))
  THEN st
  ELSE LET a == [st EXCEPT !.access = data.access_token,
                           !.accessExp = StringOf(data.access_expires_at)]
       IN IF Truthy(data.refresh_token) /\ Truthy(data.refresh_expires_at)
          THEN [a EXCEPT !.refresh = data.refresh_token,
                         !.refreshExp = StringOf(data.refresh_expires_at)]
          ELSE a

saveTokens(st, data) ==
  LET a == [st EXCEPT !.access = data.access_token,
                      !.accessExp = StringOf(data.access_expires_at)]
  IN IF Truthy(data.refresh_token) /\ Truthy(data.refresh_expires_at)
     THEN [a EXCEPT !.refresh = data.refresh_token,
                    !.refreshExp = StringOf(data.refresh_expires_at)]
     ELSE a

\* the removeItem of LS.me is missing
clearTokens_keepMe(st) == [AllAbsent EXCEPT !.me = st.me]

clearTokens(st) == AllAbsent

\* off-by-one leeway: a token expiring at now + 16 is refused
hasValidAT_strict(st, t) == getAT(st) # Empty /\ Gt(getATExp(st), t + LEEWAY + 1)

\* ">=" for ">": a token expiring exactly at now + 15 is accepted
hasValidAT_ge(st, t) == getAT(st) # Empty /\ ~Gt(t + LEEWAY, getATExp(st)) /\ getATExp(st) # NaN

hasValidAT(st, t) == getAT(st) # Empty /\ Gt(getATExp(st), t + LEEWAY)

\* the expiry of the refresh token is not looked at
hasValidRT_noExpiry(st, t) == getRT(st) # Empty

hasValidRT(st, t) == getRT(st) # Empty /\ Gt(getRTExp(st), t + LEEWAY)

\* login.js saveTokens(data, persistRefresh)
loginSaveTokens(st, data, persistRefresh) ==
  LET a == [st EXCEPT !.access = data.access_token,
                      !.accessExp = StringOf(data.access_expires_at)]
  IN IF persistRefresh
     THEN [a EXCEPT !.refresh = data.refresh_token,
                    !.refreshExp = StringOf(data.refresh_expires_at)]
     ELSE [a EXCEPT !.refresh = NoItem, !.refreshExp = NoItem]

\* ---------------------------------------------------------------- redirect
\* redirectLogin on the browser state b = [redirecting, navCount, navTarget]
\* a URL as far as the site tells pages apart: the document and ?from=
Url(path, from) == [path |-> path, from |-> from]
NoNav == Url("none", "")
LOGIN_URL == "login"

\* the "from" parameter is not appended
redirectLogin_noFrom(b) ==
  IF b.redirecting THEN b
  ELSE [redirecting |-> TRUE, navCount |-> b.navCount + 1,
        navTarget |-> Url(LOGIN_URL, "")]

\* the flag is not set before location.replace
redirectLogin_noFlag(b) ==
  IF b.redirecting THEN b
  ELSE [redirecting |-> FALSE, navCount |-> b.navCount + 1,
        navTarget |-> Url(LOGIN_URL, "home")]

redirectLogin(b) ==
  IF b.redirecting THEN b
  ELSE [redirecting |-> TRUE, navCount |-> b.navCount + 1,
        navTarget |-> Url(LOGIN_URL, "home")]

Browser == [redirecting |-> redirecting, navCount |-> navCount, navTarget |-> navTarget]

SetBrowser(b) ==
  /\ redirecting' = b.redirecting
  /\ navCount' = b.navCount
  /\ navTarget' = b.navTarget

\* ------------------------------------------------------------------ server
ExpiryChoices(t) == {t + LEEWAY + d : d \in 0..MaxLife}

\* the server never issues the token the client holds: two values per leg are
\* enough to tell an issued token from the cached one
FreshToken(held) == IF held = 1 THEN 2 ELSE 1

\* success bodies of login and refresh for a client holding st: a fresh token
\* pair, the refresh leg optional
TokenBodies(st, t, withRefresh) ==
  {[access_token |-> FreshToken(st.access), access_expires_at |-> ae,
    refresh_token |-> IF withRefresh THEN FreshToken(st.refresh) ELSE Undefined,
    refresh_expires_at |-> IF withRefresh THEN re ELSE Undefined] :
      ae \in ExpiryChoices(t), re \in ExpiryChoices(t)}

\* success bodies of refresh that carry only one of the two refresh fields
PartialBodies(st, t) ==
  {[access_token |-> FreshToken(st.access), access_expires_at |-> ae,
    refresh_token |-> rt, refresh_expires_at |-> re] :
      ae \in ExpiryChoices(t),
      rt \in {FreshToken(st.refresh), Undefined},
      re \in {t + LEEWAY + MaxLife, Undefined}}
  \ TokenBodies(st, t, TRUE)

\* status 0 stands for a rejected fetch (network error)
FailStatuses == {0, 401, 500}

respOk(resp) == resp.status >= 200 /\ resp.status <= 299

\* -------------------------------------------------------------- page state
FreshPc == [s \in Scripts |-> "wait"]
FreshAt == [s \in Scripts |-> Empty]
\* the return paths of init that follow a redirectLogin call
FailedPcs == {"noRefreshToken", "refresh401", "refreshFailed", "meRejected", "meThrew"}

Event(act, s, req, resp, ret, redir) ==
  [act |-> act, s |-> s, req |-> req, resp |-> resp, ret |-> ret, redir |-> redir,
   persist |-> FALSE]

\* the `state` object of the song page as the script creates it, nothing
\* requested yet; prevDisabled / nextDisabled are the two list buttons
SongInit ==
  [q |-> 0, page |-> 1, pageSize |-> DefaultPageSize, list |-> <<>>, indexInPage |-> 0,
   prevDisabled |-> FALSE, nextDisabled |-> FALSE,
   pending |-> {}, issued |-> 0, latest |-> <<>>, initDone |-> TRUE]
\* the `state` object of the home page grid as the script creates it;
\* rendered is the slice renderGrid drew last, rows what fetchAllSongs or
\* the fallback gave, before sorting
GridInit ==
  [allSongs |-> <<>>, page |-> 1, pageSize |-> DefaultPageSize, rendered |-> <<>>,
   prevDisabled |-> FALSE, nextDisabled |-> FALSE, rows |-> <<>>, phase |-> "idle"]
\* two tabs of the same browser: localStorage is shared, sessionStorage (the
\* redirect flag) and the page instance are per tab; all closed in Init.
\* Each tab loads home.html once and the clock stands still while they race.
Tabs == {1, 2}
TabAt(pcv) ==
  [pc |-> [s \in Scripts |-> pcv], sent |-> [s \in Scripts |-> Empty],
   b |-> [redirecting |-> FALSE, navCount |-> 0, navTarget |-> NoNav]]
TabsInit == [t |-> [i \in Tabs |-> TabAt("closed")], saved |-> <<>>]

Init ==
  /\ ls = AllAbsent
  /\ redirecting = FALSE
  /\ now = 0
  /\ page = "login"
  /\ navTarget = NoNav
  /\ navCount = 0
  /\ pc = FreshPc
  /\ at = FreshAt
  /\ userBar = FALSE
  /\ logoutPending = 0
  /\ lpc = "idle"
  /\ rejected = [at |-> FALSE, rt |-> FALSE]
  /\ ev = Event("init", 0, NoReq, NoResp, NoRet, FALSE)
  /\ before = AllAbsent
  /\ song = SongInit
  /\ grid = GridInit
  /\ tabs = TabsInit


\* ------------------------------------------------------ ensureAccessToken
\* up to its first await: the fast path, the no-refresh-token path, or the
\* refresh request
\* the hasValidRT guard is missing: a refresh is sent with whatever is stored
ensureAccessTokenCall_noRTCheck(st, t) ==
  IF hasValidAT(st, t)
  THEN [returned |-> TRUE, ret |-> getAT(st), redir |-> FALSE, req |-> NoReq]
  ELSE [returned |-> FALSE, ret |-> NoRet, redir |-> FALSE,
        req |-> [ep |-> "refresh", tok |-> getRT(st)]]

ensureAccessTokenCall(st, t) ==
  IF hasValidAT(st, t)
  THEN [returned |-> TRUE, ret |-> getAT(st), redir |-> FALSE, req |-> NoReq]
  ELSE IF ~hasValidRT(st, t)
  THEN [returned |-> TRUE, ret |-> Empty, redir |-> TRUE, req |-> NoReq]
  ELSE [returned |-> FALSE, ret |-> NoRet, redir |-> FALSE,
        req |-> [ep |-> "refresh", tok |-> getRT(st)]]

\* a failed refresh falls back to the cached access token
ensureAccessTokenResume_staleOnError(st, resp) ==
  IF respOk(resp)
  THEN [ls |-> saveTokens(st, resp.data), ret |-> resp.data.access_token, redir |-> FALSE]
  ELSE [ls |-> st, ret |-> getAT(st), redir |-> TRUE]

\* after the await: resp.ok, or not, or the catch block (status 0)
ensureAccessTokenResume(st, resp) ==
  IF respOk(resp)
  THEN [ls |-> saveTokens(st, resp.data), ret |-> resp.data.access_token, redir |-> FALSE]
  ELSE [ls |-> st, ret |-> Empty, redir |-> TRUE]

RefreshResponses ==
  {[status |-> 200, data |-> d] :
      d \in TokenBodies(ls, now, TRUE) \cup PartialBodies(ls, now)}
  \cup {[status |-> c, data |-> NoResp.data] : c \in FailStatuses}

LoginResponses ==
  {[status |-> 200, data |-> d] :
      d \in TokenBodies(ls, now, TRUE)}
  \cup {[status |-> c, data |-> NoResp.data] : c \in FailStatuses}

MeStatuses == {200} \cup FailStatuses

\* a leg stops being a rejected one when its key is overwritten or removed
StillRejected(st, st2) ==
  [at |-> rejected.at /\ st2.access = st.access,
   rt |-> rejected.rt /\ st2.refresh = st.refresh]

\* the refresh endpoint answered 401 while st was stored
Reject(st) == [at |-> getAT(st) # Empty, rt |-> getRT(st) # Empty]

\* ------------------------------------------------------------ event loop
\* DOMContentLoaded runs the two init listeners in one dispatch, and the
\* continuation of `await ensureAccessToken()` is a microtask: both come
\* before the next task (a response, a click, a load, a clock tick).
\* the second listener runs in a later task than the first
Dispatching_deferred == FALSE

Dispatching == page = "home" /\ pc[1] # "wait" /\ pc[2] = "wait"
MicrotaskPending == \E s \in Scripts : pc[s] = "ensured"
BetweenTasks == ~Dispatching /\ ~MicrotaskPending

\* ------------------------------------------------------- home.js, init
\* DOMContentLoaded reaches init of script s: prefill of the user bar from
\* the cached profile, then ensureAccessToken up to its first await
InitStart(s) ==
  /\ page = "home"
  /\ pc[s] = "wait"
  /\ \A r \in Scripts : r < s => pc[r] # "wait"
  /\ ~MicrotaskPending
  /\ LET r == ensureAccessTokenCall(ls, now)
         b == IF r.redir THEN redirectLogin(Browser) ELSE Browser
     IN /\ SetBrowser(b)
        /\ pc' = [pc EXCEPT ![s] = IF ~r.returned THEN "refreshing"
                                   ELSE IF r.ret = Empty THEN "noRefreshToken"
                                   ELSE "ensured"]
        /\ at' = [at EXCEPT ![s] = IF r.returned THEN r.ret ELSE Empty]
        /\ ev' = Event("ensureCall", s, r.req, NoResp, r.ret, r.redir)
  /\ userBar' = (userBar \/ ls.me # NoItem)
  /\ UNCHANGED <<ls, now, page, logoutPending, lpc, rejected>>
  /\ UNCHANGED <<before, song, grid, tabs>>

\* the refresh response arrives and ensureAccessToken returns
RefreshResp(s) ==
  /\ BetweenTasks
  /\ page = "home"
  /\ pc[s] = "refreshing"
  /\ \E resp \in RefreshResponses :
       LET r == ensureAccessTokenResume(ls, resp)
           b == IF r.redir THEN redirectLogin(Browser) ELSE Browser
       IN /\ ls' = r.ls
          /\ SetBrowser(b)
          /\ at' = [at EXCEPT ![s] = r.ret]
          /\ pc' = [pc EXCEPT ![s] = IF r.ret # Empty THEN "ensured"
                                     ELSE IF resp.status = 401 THEN "refresh401"
                                     ELSE "refreshFailed"]
          /\ rejected' = IF resp.status = 401 THEN Reject(ls) ELSE StillRejected(ls, r.ls)
          /\ ev' = Event("ensureResume", s, NoReq, resp, r.ret, r.redir)
  /\ UNCHANGED <<now, page, userBar, logoutPending, lpc>>
  /\ UNCHANGED <<before, song, grid, tabs>>

\* init after `await ensureAccessToken()` gave a token (on a falsy one init
\* has returned): fetchMe sends the profile request; `at` is not read again
InitAfterEnsure(s) ==
  /\ page = "home"
  /\ pc[s] = "ensured"
  /\ pc' = [pc EXCEPT ![s] = "fetchingMe"]
  /\ at' = [at EXCEPT ![s] = Empty]
  /\ ev' = Event("fetchMeCall", s, [ep |-> "me", tok |-> at[s]], NoResp, NoRet, FALSE)
  /\ UNCHANGED <<ls, redirecting, now, page, navTarget, navCount,
                 userBar, logoutPending, lpc, rejected>>
  /\ UNCHANGED <<before, song, grid, tabs>>

\* fetchMe after its await: a rejected fetch throws out of fetchMe, a
\* non-success status calls redirectLogin and returns null (NoItem), a success
\* caches the profile inside try/catch and returns it. cacheThrows is
\* localStorage.setItem(LS.me, ...) throwing (quota); the write then has no effect.
fetchMeResume_ignoresStatus(st, resp, cacheThrows) ==
  IF resp.status = 0
  THEN [ls |-> st, ret |-> NoRet, redir |-> FALSE, threw |-> TRUE]
  ELSE [ls |-> IF cacheThrows THEN st ELSE [st EXCEPT !.me = Profile],
        ret |-> Profile, redir |-> FALSE, threw |-> FALSE]

\* the try/catch around the cache write is missing
fetchMeResume_noCatch(st, resp, cacheThrows) ==
  IF resp.status = 0
  THEN [ls |-> st, ret |-> NoRet, redir |-> FALSE, threw |-> TRUE]
  ELSE IF ~respOk(resp)
  THEN [ls |-> st, ret |-> NoItem, redir |-> TRUE, threw |-> FALSE]
  ELSE IF cacheThrows
  THEN [ls |-> st, ret |-> NoRet, redir |-> FALSE, threw |-> TRUE]
  ELSE [ls |-> [st EXCEPT !.me = Profile],
        ret |-> Profile, redir |-> FALSE, threw |-> FALSE]

fetchMeResume(st, resp, cacheThrows) ==
  IF resp.status = 0
  THEN [ls |-> st, ret |-> NoRet, redir |-> FALSE, threw |-> TRUE]
  ELSE IF ~respOk(resp)
  THEN [ls |-> st, ret |-> NoItem, redir |-> TRUE, threw |-> FALSE]
  ELSE [ls |-> IF cacheThrows THEN st ELSE [st EXCEPT !.me = Profile],
        ret |-> Profile, redir |-> FALSE, threw |-> FALSE]

\* the profile response arrives: fetchMe returns and init finishes its try block
\* (a thrown fetchMe lands in init's catch, which calls redirectLogin)
MeResp(s) ==
  /\ BetweenTasks
  /\ page = "home"
  /\ pc[s] = "fetchingMe"
  /\ \E status \in MeStatuses, cacheThrows \in BOOLEAN :
       LET resp == [NoResp EXCEPT !.status = status]
           r == fetchMeResume(ls, resp, cacheThrows)
       IN /\ cacheThrows => respOk(resp)
          /\ ls' = r.ls
          /\ IF r.threw \/ r.ret = NoItem
             THEN /\ SetBrowser(redirectLogin(Browser))
                  /\ pc' = [pc EXCEPT ![s] = IF r.threw THEN "meThrew" ELSE "meRejected"]
                  /\ ev' = Event("fetchMeFail", s, NoReq, resp, r.ret, TRUE)
                  /\ UNCHANGED userBar
             ELSE /\ userBar' = TRUE
                  /\ redirecting' = FALSE
                  /\ UNCHANGED <<navCount, navTarget>>
                  /\ pc' = [pc EXCEPT ![s] = IF s = 2 THEN "songs" ELSE "authenticated"]
                  /\ ev' = Event(IF cacheThrows THEN "fetchMeCacheThrew" ELSE "fetchMeOk",
                                 s, NoReq, resp, r.ret, FALSE)
  /\ UNCHANGED <<now, page, at, logoutPending, lpc, rejected>>
  /\ UNCHANGED <<before, song, grid, tabs>>

\* second script only: initSongs has loaded and rendered the grid
InitSongsDone(s) ==
  /\ BetweenTasks
  /\ page = "home"
  /\ pc[s] = "songs"
  /\ pc' = [pc EXCEPT ![s] = "authenticated"]
  /\ ev' = Event("initSongs", s, [ep |-> "songs", tok |-> Empty], NoResp, NoRet, FALSE)
  /\ UNCHANGED <<ls, redirecting, now, page, navTarget, navCount, at,
                 userBar, logoutPending, lpc, rejected>>
  /\ UNCHANGED <<before, song, grid, tabs>>

\* ----------------------------------------------------- home.js, onLogout
LogoutClick ==
  /\ BetweenTasks
  /\ page = "home"
  /\ userBar
  /\ logoutPending < MaxLogout
  /\ IF getAT(ls) # Empty
     THEN /\ logoutPending' = logoutPending + 1
          /\ ev' = Event("logoutCall", 0, [ep |-> "logout", tok |-> getAT(ls)], NoResp, NoRet, FALSE)
          /\ UNCHANGED <<ls, redirecting, navCount, navTarget>>
     ELSE /\ ls' = clearTokens(ls)
          /\ SetBrowser(redirectLogin(Browser))
          /\ ev' = Event("logoutDone", 0, NoReq, NoResp, NoRet, TRUE)
          /\ UNCHANGED logoutPending
  /\ rejected' = StillRejected(ls, ls')
  /\ UNCHANGED <<now, page, pc, at, userBar, lpc>>
  /\ UNCHANGED <<before, song, grid, tabs>>

\* the logout request resolved or threw: either way clearTokens, redirectLogin
LogoutResp ==
  /\ BetweenTasks
  /\ page = "home"
  /\ logoutPending > 0
  /\ \E status \in MeStatuses :
       ev' = Event("logoutDone", 0, NoReq, [NoResp EXCEPT !.status = status], NoRet, TRUE)
  /\ logoutPending' = logoutPending - 1
  /\ ls' = clearTokens(ls)
  /\ rejected' = StillRejected(ls, ls')
  /\ SetBrowser(redirectLogin(Browser))
  /\ UNCHANGED <<now, page, pc, at, userBar, lpc>>
  /\ UNCHANGED <<before, song, grid, tabs>>

\* ------------------------------------------------- login.js, submit handler
LoginSubmit ==
  /\ BetweenTasks
  /\ page = "login"
  /\ lpc = "idle"
  /\ navTarget = NoNav
  /\ lpc' = "login"
  /\ ev' = Event("loginCall", 0, [ep |-> "login", tok |-> Empty], NoResp, NoRet, FALSE)
  /\ UNCHANGED <<ls, redirecting, now, page, navTarget, navCount, pc, at,
                 userBar, logoutPending, rejected>>
  /\ before' = ls
  /\ UNCHANGED <<song, grid, tabs>>

LoginResp ==
  /\ BetweenTasks
  /\ page = "login"
  /\ lpc = "login"
  /\ \E resp \in LoginResponses :
       /\ IF respOk(resp)
          THEN \E persistRefresh \in BOOLEAN :
                 /\ ls' = loginSaveTokens(ls, resp.data, persistRefresh)
                 /\ rejected' = StillRejected(ls, loginSaveTokens(ls, resp.data, persistRefresh))
                 /\ lpc' = "me"
                 /\ ev' = [Event("loginOk", 0, [ep |-> "me", tok |-> resp.data.access_token],
                                 resp, NoRet, FALSE) EXCEPT !.persist = persistRefresh]
                 /\ UNCHANGED before
          ELSE /\ lpc' = "idle"
               /\ ev' = Event("loginError", 0, NoReq, resp, NoRet, FALSE)
               /\ before' = AllAbsent
               /\ UNCHANGED <<ls, rejected>>
  /\ UNCHANGED <<redirecting, now, page, navTarget, navCount, pc, at,
                 userBar, logoutPending>>
  /\ UNCHANGED <<song, grid, tabs>>

\* the profile response on the login page: saveMe when ok, then
\* window.location.assign(nextUrl) in every case
LoginMeResp ==
  /\ BetweenTasks
  /\ page = "login"
  /\ lpc = "me"
  /\ \E status \in MeStatuses :
       LET resp == [NoResp EXCEPT !.status = status]
       IN /\ ls' = IF respOk(resp) THEN [ls EXCEPT !.me = Profile] ELSE ls
          /\ ev' = Event("loginDone", 0, NoReq, resp, NoRet, FALSE)
  /\ lpc' = "idle"
  /\ navTarget' = Url("home", "")
  /\ UNCHANGED <<redirecting, now, page, navCount, pc, at,
                 userBar, logoutPending, rejected>>
  /\ before' = AllAbsent
  /\ UNCHANGED <<song, grid, tabs>>

\* ------------------------------------- signup.js, submit handler, doAutoLogin
\* doAutoLogin after its login request resolved: all four token keys are written
signupSaveTokens(st, data) ==
  [st EXCEPT !.access = data.access_token,
             !.accessExp = StringOf(data.access_expires_at),
             !.refresh = data.refresh_token,
             !.refreshExp = StringOf(data.refresh_expires_at)]

\* every failure of the handler lands in its catch: showToast(..., "danger")
SignupError(resp) ==
  /\ lpc' = "idle"
  /\ before' = AllAbsent
  /\ ev' = Event("signupError", 0, NoReq, resp, NoRet, FALSE)

SignupSubmit ==
  /\ page = "signup"
  /\ lpc = "idle"
  /\ navTarget = NoNav
  /\ lpc' = "create"
  /\ before' = ls
  /\ ev' = Event("signupCall", 0, [ep |-> "users", tok |-> Empty], NoResp, NoRet, FALSE)
  /\ UNCHANGED <<ls, redirecting, now, page, navTarget, navCount, pc, at,
                 userBar, logoutPending, rejected, song, grid, tabs>>

\* POST /api/users answered: postJSON throws unless res.ok, else doAutoLogin
\* sends the login request
SignupCreateResp ==
  /\ page = "signup"
  /\ lpc = "create"
  /\ \E status \in MeStatuses :
       LET resp == [NoResp EXCEPT !.status = status]
       IN IF respOk(resp)
          THEN /\ lpc' = "autologin"
               /\ ev' = Event("signupCreated", 0, [ep |-> "login", tok |-> Empty],
                              resp, NoRet, FALSE)
               /\ UNCHANGED before
          ELSE SignupError(resp)
  /\ UNCHANGED <<ls, redirecting, now, page, navTarget, navCount, pc, at,
                 userBar, logoutPending, rejected, song, grid, tabs>>

\* the login request of doAutoLogin answered: tokens stored, profile requested
SignupLoginResp ==
  /\ page = "signup"
  /\ lpc = "autologin"
  /\ \E resp \in LoginResponses :
       IF respOk(resp)
       THEN /\ ls' = signupSaveTokens(ls, resp.data)
            /\ lpc' = "signupMe"
            /\ ev' = Event("signupLoginOk", 0, [ep |-> "me", tok |-> resp.data.access_token],
                           resp, NoRet, FALSE)
            /\ UNCHANGED before
       ELSE SignupError(resp) /\ UNCHANGED ls
  /\ rejected' = StillRejected(ls, ls')
  /\ UNCHANGED <<redirecting, now, page, navTarget, navCount, pc, at,
                 userBar, logoutPending, song, grid, tabs>>

\* the profile request of doAutoLogin answered: getJSON throws unless res.ok;
\* the setItem of LS.me is not guarded, a throw there is also caught by the
\* handler; on success the toast is shown and the navigation timer is set
SignupMeResp ==
  /\ page = "signup"
  /\ lpc = "signupMe"
  /\ \E status \in MeStatuses, cacheThrows \in BOOLEAN :
       LET resp == [NoResp EXCEPT !.status = status]
       IN /\ cacheThrows => respOk(resp)
          /\ IF respOk(resp) /\ ~cacheThrows
             THEN /\ ls' = [ls EXCEPT !.me = Profile]
                  /\ lpc' = "timer"
                  /\ ev' = Event("signupDone", 0, NoReq, resp, NoRet, FALSE)
                  /\ before' = AllAbsent
             ELSE SignupError(resp) /\ UNCHANGED ls
  /\ UNCHANGED <<redirecting, now, page, navTarget, navCount, pc, at,
                 userBar, logoutPending, rejected, song, grid, tabs>>

\* setTimeout(() => window.location.assign(NEXT_URL), 600) fires
SignupTimer ==
  /\ page = "signup"
  /\ lpc = "timer"
  /\ lpc' = "idle"
  /\ navTarget' = Url("home", "")
  /\ ev' = Event("signupNavigate", 0, NoReq, NoResp, NoRet, FALSE)
  /\ UNCHANGED <<ls, redirecting, now, page, navCount, pc, at, userBar,
                 logoutPending, rejected, before, song, grid, tabs>>

\* ------------------------------------------------------------- environment
\* a new document replaces the page instance: its handlers and their
\* pending requests are gone, both storages stay
LoadPage(p, how) ==
  /\ page' = p
  /\ navTarget' = NoNav
  /\ navCount' = 0
  /\ pc' = FreshPc
  /\ at' = FreshAt
  /\ userBar' = FALSE
  /\ logoutPending' = 0
  /\ lpc' = "idle"
  /\ ev' = Event(how, 0, NoReq, NoResp, NoRet, FALSE)
  /\ UNCHANGED <<ls, redirecting, now, rejected>>
  /\ before' = AllAbsent
  /\ UNCHANGED <<song, grid, tabs>>

\* the navigation started by location.replace / location.assign commits
NavCommit ==
  /\ BetweenTasks
  /\ navTarget # NoNav
  /\ LoadPage(navTarget.path, "navCommit")

\* the user opens or reloads a page of the site in this tab
UserLoad ==
  /\ BetweenTasks
  /\ navTarget = NoNav
  /\ \E p \in {"home", "login"} : LoadPage(p, "userLoad")

Tick ==
  /\ BetweenTasks
  /\ now < MaxNow
  /\ now' = now + 1
  /\ ev' = Event("tick", 0, NoReq, NoResp, NoRet, FALSE)
  /\ UNCHANGED <<ls, redirecting, page, navTarget, navCount, pc, at,
                 userBar, logoutPending, lpc, rejected>>
  /\ UNCHANGED <<before, song, grid, tabs>>

Next ==
  \/ \E s \in Scripts : InitStart(s)
  \/ \E s \in Scripts : RefreshResp(s)
  \/ \E s \in Scripts : InitAfterEnsure(s)
  \/ \E s \in Scripts : MeResp(s)
  \/ \E s \in Scripts : InitSongsDone(s)
  \/ LogoutClick
  \/ LogoutResp
  \/ LoginSubmit
  \/ LoginResp
  \/ LoginMeResp
  \/ NavCommit
  \/ UserLoad
  \/ Tick

Spec == Init /\ [][Next]_vars

\* ----------------------------------------- login.html and signup.html alone
\* the user opens login.html or signup.html, or comes back to one of them
\* after the navigation to home.html
AuthLoad ==
  \E p \in {"login", "signup"} : LoadPage(p, "userLoad")

AuthNext ==
  \/ LoginSubmit
  \/ LoginResp
  \/ LoginMeResp
  \/ SignupSubmit
  \/ SignupCreateResp
  \/ SignupLoginResp
  \/ SignupMeResp
  \/ SignupTimer
  \/ AuthLoad
  \/ Tick

SpecAuth == Init /\ [][AuthNext]_vars

\* ------------------------------------------ home.html in two tabs, home.js init
\* the session a login with "remember me" and a fetched profile leaves behind
StoredSessions ==
  {[loginSaveTokens(AllAbsent, d, TRUE) EXCEPT !.me = Profile] :
      d \in TokenBodies(AllAbsent, 0, TRUE)}

TabsStart ==
  /\ ls \in StoredSessions
  /\ redirecting = FALSE
  /\ now = 0
  /\ page = "login"
  /\ navTarget = NoNav
  /\ navCount = 0
  /\ pc = FreshPc
  /\ at = FreshAt
  /\ userBar = FALSE
  /\ logoutPending = 0
  /\ lpc = "idle"
  /\ rejected = [at |-> FALSE, rt |-> FALSE]
  /\ ev = Event("init", 0, NoReq, NoResp, NoRet, FALSE)
  /\ before = AllAbsent
  /\ song = SongInit
  /\ grid = GridInit
  /\ tabs = [t |-> [i \in Tabs |-> TabAt("wait")], saved |-> <<>>]

TabDispatching(T) == T.pc[1] \notin {"wait", "closed"} /\ T.pc[2] = "wait"
TabMicrotaskPending(T) == \E s \in Scripts : T.pc[s] = "ensured"
TabBetweenTasks(T) == ~TabDispatching(T) /\ ~TabMicrotaskPending(T)

\* the response handed to saveTokens last and the tab that saved it, preceded
\* by the tab and access token of the one saved before it
Saved(t, resp) ==
  LET e == [tab |-> t, data |-> resp.data]
      n == Len(tabs.saved)
  IN IF n = 0 THEN <<e>>
     ELSE <<[tab |-> tabs.saved[n].tab,
             data |-> [NoResp.data EXCEPT !.access_token = tabs.saved[n].data.access_token]],
            e>>

\* answers of the refresh endpoint while the tabs race: a pair, an access
\* token alone, or 401
TabRefreshResponses ==
  {resp \in RefreshResponses :
     \/ resp.status = 401
     \/ /\ respOk(resp)
        /\ resp.data.access_expires_at = now + LEEWAY + MaxLife
        /\ resp.data.refresh_token # Undefined
             <=> resp.data.refresh_expires_at = now + LEEWAY + MaxLife}

\* DOMContentLoaded in tab t reaches init of script s: ensureAccessToken up
\* to its first await
TabStart(t, s) ==
  LET T == tabs.t[t]
      r == ensureAccessTokenCall(ls, now)
  IN /\ T.pc[s] = "wait"
     /\ \A q \in Scripts : q < s => T.pc[q] # "wait"
     /\ ~TabMicrotaskPending(T)
     /\ tabs' = [tabs EXCEPT !.t[t] =
          [pc |-> [T.pc EXCEPT ![s] = IF ~r.returned THEN "refreshing"
                                     ELSE IF r.ret = Empty THEN "failed"
                                     ELSE "ensured"],
           sent |-> [T.sent EXCEPT ![s] = r.req.tok],
           b |-> IF r.redir THEN redirectLogin(T.b) ELSE T.b]]
     /\ UNCHANGED <<ls, redirecting, now, page, navTarget, navCount, pc, at, userBar,
                    logoutPending, lpc, rejected, ev, before, song, grid>>

\* the refresh response of a flow of tab t arrives
TabRefreshResp(t, s) ==
  LET T == tabs.t[t]
  IN /\ TabBetweenTasks(T)
     /\ T.pc[s] = "refreshing"
     /\ \E resp \in TabRefreshResponses :
          LET r == ensureAccessTokenResume(ls, resp)
          IN /\ ls' = r.ls
             /\ tabs' = [tabs EXCEPT
                  !.t[t] = [T EXCEPT
                     !.pc[s] = IF r.ret # Empty THEN "ensured" ELSE "failed",
                     !.b = IF r.redir THEN redirectLogin(T.b) ELSE T.b],
                  !.saved = IF respOk(resp) THEN Saved(t, resp) ELSE @]
     /\ UNCHANGED <<redirecting, now, page, navTarget, navCount, pc, at, userBar,
                    logoutPending, lpc, rejected, ev, before, song, grid>>

\* init of a flow of tab t goes on with the token: fetchMe sends its request
TabAfterEnsure(t, s) ==
  /\ tabs.t[t].pc[s] = "ensured"
  /\ tabs' = [tabs EXCEPT !.t[t].pc[s] = "fetchingMe"]
  /\ UNCHANGED <<ls, redirecting, now, page, navTarget, navCount, pc, at, userBar,
                 logoutPending, lpc, rejected, ev, before, song, grid>>

\* the profile response of a flow of tab t arrives; the grid loading that
\* follows in the second script does not touch the session
TabMeResp(t, s) ==
  LET T == tabs.t[t]
  IN /\ TabBetweenTasks(T)
     /\ T.pc[s] = "fetchingMe"
     /\ \E status \in {200, 401} :
          LET resp == [NoResp EXCEPT !.status = status]
              r == fetchMeResume(ls, resp, FALSE)
          IN /\ ls' = r.ls
             /\ tabs' = [tabs EXCEPT !.t[t] =
                  IF r.threw \/ r.ret = NoItem
                  THEN [T EXCEPT !.pc[s] = "failed", !.b = redirectLogin(T.b)]
                  ELSE [T EXCEPT !.pc[s] = "done", !.b.redirecting = FALSE]]
     /\ UNCHANGED <<redirecting, now, page, navTarget, navCount, pc, at, userBar,
                    logoutPending, lpc, rejected, ev, before, song, grid>>

\* the navigation to login started in tab t commits: its page instance is gone
TabNavCommit(t) ==
  LET T == tabs.t[t]
  IN /\ TabBetweenTasks(T)
     /\ T.b.navTarget # NoNav
     /\ tabs' = [tabs EXCEPT !.t[t] =
          [TabAt("closed") EXCEPT !.b.redirecting = T.b.redirecting, !.sent = T.sent]]
     /\ UNCHANGED <<ls, redirecting, now, page, navTarget, navCount, pc, at, userBar,
                    logoutPending, lpc, rejected, ev, before, song, grid>>

TabsNext ==
  \/ \E t \in Tabs, s \in Scripts : TabStart(t, s)
  \/ \E t \in Tabs, s \in Scripts : TabRefreshResp(t, s)
  \/ \E t \in Tabs, s \in Scripts : TabAfterEnsure(t, s)
  \/ \E t \in Tabs, s \in Scripts : TabMeResp(t, s)
  \/ \E t \in Tabs : TabNavCommit(t)

SpecTabs == TabsStart /\ [][TabsNext]_vars

\* ------------------------------------------------- song page (signup.js:253-795)
\* search strings: 0 is the empty string, 1 matches the songs with an odd id
Queries == {0, 1}
\* values of the page-size select; NaN is an option parseInt cannot read
PageSizeOptions == {1, 2, NaN}

\* in place of a list of rows: the fetch threw / no answer yet
FetchFailed == <<-1>>
Awaited == <<-2>>

Min(a, b) == IF a < b THEN a ELSE b
Max(a, b) == IF a > b THEN a ELSE b
clamp(n, lo, hi) == Max(lo, Min(hi, n))

\* the catalogue in id_desc order, restricted to the songs q matches
RECURSIVE Matching(_, _)
Matching(q, n) ==
  IF n = 0 THEN <<>>
  ELSE IF q = 0 \/ n % 2 = 1 THEN <<n>> \o Matching(q, n - 1)
  ELSE Matching(q, n - 1)

\* what GET /api/songs?q&page&page_size&sort=id_desc answers
Related(q, pg, size) ==
  LET all == Matching(q, SongCount)
  IN SubSeq(all, (pg - 1) * size + 1, Min(pg * size, Len(all)))

renderRelated(st) ==
  [st EXCEPT !.prevDisabled = st.page <= 1,
             !.nextDisabled = Len(st.list) < st.pageSize]

\* loadRelatedPage up to its await: the request carries the state as it is now
Issue(st, cont) ==
  [st EXCEPT !.issued = @ + 1,
             !.latest = Awaited,
             !.pending = @ \cup {[n |-> st.issued + 1, q |-> st.q, page |-> st.page,
                                  pageSize |-> st.pageSize, cont |-> cont]}]

\* the script has run: init() is awaiting the first list
SongStart ==
  /\ ls = AllAbsent
  /\ redirecting = FALSE
  /\ now = 0
  /\ page = "song"
  /\ navTarget = NoNav
  /\ navCount = 0
  /\ pc = FreshPc
  /\ at = FreshAt
  /\ userBar = FALSE
  /\ logoutPending = 0
  /\ lpc = "idle"
  /\ rejected = [at |-> FALSE, rt |-> FALSE]
  /\ ev = Event("init", 0, NoReq, NoResp, NoRet, FALSE)
  /\ before = AllAbsent
  /\ grid = GridInit
  /\ tabs = TabsInit
  /\ \E size \in {1, 2, DefaultPageSize} :
       song = [Issue([SongInit EXCEPT !.pageSize = size, !.initDone = FALSE], "init")
                 EXCEPT !.issued = 0, !.pending = {[n |-> 0, q |-> 0, page |-> 1,
                                                  pageSize |-> size, cont |-> "init"]}]

SongFrame ==
  UNCHANGED <<ls, redirecting, now, page, navTarget, navCount, pc, at, userBar,
              logoutPending, lpc, rejected, ev, before, grid, tabs>>

CanIssue == song.issued < MaxRequests

\* "input" on the search box
SearchInput(v) ==
  /\ CanIssue
  /\ song' = Issue([song EXCEPT !.q = v, !.page = 1], "none")
  /\ SongFrame

\* "change" on the page-size select
PageSizeChange(v) ==
  /\ CanIssue
  /\ song' = Issue([song EXCEPT
                      !.pageSize = IF ParseInt(v) = NaN THEN DefaultPageSize ELSE ParseInt(v),
                      !.page = 1], "none")
  /\ SongFrame

\* click on the list's Prev button (not while it is disabled)
ListPrev ==
  /\ CanIssue
  /\ ~song.prevDisabled
  /\ IF song.page > 1
     THEN song' = Issue([song EXCEPT !.page = @ - 1], "none")
     ELSE song' = song
  /\ SongFrame

\* click on the list's Next button (not while it is disabled)
ListNext ==
  /\ CanIssue
  /\ ~song.nextDisabled
  /\ IF Len(song.list) >= song.pageSize
     THEN song' = Issue([song EXCEPT !.page = @ + 1], "none")
     ELSE song' = song
  /\ SongFrame

\* nextInRelated up to its return or its await
nextInRelated(st, step) ==
  LET idx == st.indexInPage + step
  IN IF st.list = <<>> THEN st
     ELSE IF idx >= 0 /\ idx < Len(st.list)
     THEN renderRelated([st EXCEPT !.indexInPage = idx])
     ELSE IF idx < 0
     THEN IF st.page <= 1 THEN st
          ELSE Issue([st EXCEPT !.page = @ - 1], "prev")
     ELSE Issue([st EXCEPT !.page = @ + 1], "next")

\* click on the player's Prev (step -1) or Next (step +1) button
PlayerStep(step) ==
  /\ CanIssue
  /\ song' = nextInRelated(song, step)
  /\ SongFrame

\* click on the Play button of card number index of the rendered list
PlayClick(index) ==
  /\ index < Len(song.list)
  /\ song' = renderRelated([song EXCEPT
                !.indexInPage = clamp(index, 0, Max(0, Len(song.list) - 1))])
  /\ SongFrame

\* loadRelatedPage after its await (rows = FetchFailed when fetchRelated threw),
\* followed by what the awaiting caller does next
loadRelatedPageResume(st, r, rows) ==
  LET got == renderRelated([st EXCEPT !.list = IF rows = FetchFailed THEN <<>> ELSE rows,
                                      !.pending = @ \ {r},
                                      !.latest = IF r.n = st.issued
                                                 THEN (IF rows = FetchFailed THEN <<>> ELSE rows)
                                                 ELSE @])
  IN IF r.cont = "prev"
     THEN [got EXCEPT !.indexInPage = Max(0, Len(got.list) - 1)]
     ELSE IF r.cont = "next"
     THEN [got EXCEPT !.indexInPage = 0]
     ELSE got

\* the answer to list request r arrives, in any order
ListResp(r) ==
  /\ r \in song.pending
  /\ \E rows \in {Related(r.q, r.page, r.pageSize), FetchFailed} :
       song' = loadRelatedPageResume(song, r, rows)
  /\ SongFrame

\* init() once its first list is there: the song to play is looked up in the
\* current list (found), or the first card is played, or neither
SongInitPlay ==
  /\ ~song.initDone
  /\ \A r \in song.pending : r.cont # "init"
  /\ \E found \in -1 .. (Len(song.list) - 1) :
       song' = renderRelated([song EXCEPT !.initDone = TRUE,
                                         !.indexInPage = IF found >= 0 THEN found ELSE @])
  /\ SongFrame

SongNext ==
  \/ \E v \in Queries : SearchInput(v)
  \/ \E v \in PageSizeOptions : PageSizeChange(v)
  \/ ListPrev
  \/ ListNext
  \/ \E step \in {-1, 1} : PlayerStep(step)
  \/ \E index \in 0 .. (SongCount - 1) : PlayClick(index)
  \/ \E r \in song.pending : ListResp(r)
  \/ SongInitPlay

SpecSong == SongStart /\ [][SongNext]_vars

\* ------------------------------------------- home page songs grid (home.js:325-518)
CeilDiv(a, b) == (a + b - 1) \div b

\* state.allSongs.sort((a, b) => B - A) on song ids, ascending in the mutant
RECURSIVE InsertBy(_, _, _)
InsertBy(x, seq, desc) ==
  IF seq = <<>> THEN <<x>>
  ELSE IF (desc /\ Head(seq) >= x) \/ (~desc /\ Head(seq) <= x)
  THEN <<Head(seq)>> \o InsertBy(x, Tail(seq), desc)
  ELSE <<x>> \o seq

RECURSIVE SortBy(_, _)
SortBy(seq, desc) ==
  IF seq = <<>> THEN <<>>
  ELSE InsertBy(seq[Len(seq)], SortBy(SubSeq(seq, 1, Len(seq) - 1), desc), desc)

sortSongs_asc(seq) == SortBy(seq, FALSE)

sortSongs(seq) == SortBy(seq, TRUE)

renderGrid(g) ==
  LET total == Len(g.allSongs)
      totalPages == Max(1, CeilDiv(total, g.pageSize))
      pg == IF g.page > totalPages THEN totalPages ELSE g.page
      start == (pg - 1) * g.pageSize
      end == Min(start + g.pageSize, total)
  IN [g EXCEPT !.page = pg,
               !.prevDisabled = pg <= 1,
               !.nextDisabled = pg >= totalPages,
               !.rendered = IF total = 0 THEN <<>> ELSE SubSeq(g.allSongs, start + 1, end)]

\* song ids of the rows a load can give, in any order, some of them twice
RowLists == UNION {[1..n -> 1..MaxRows] : n \in 0..MaxRows}

\* initSongs has registered its handlers and awaits fetchAllSongs
GridStart ==
  /\ ls = AllAbsent
  /\ redirecting = FALSE
  /\ now = 0
  /\ page = "home"
  /\ navTarget = NoNav
  /\ navCount = 0
  /\ pc = [s \in Scripts |-> IF s = 2 THEN "songs" ELSE "authenticated"]
  /\ at = FreshAt
  /\ userBar = TRUE
  /\ logoutPending = 0
  /\ lpc = "idle"
  /\ rejected = [at |-> FALSE, rt |-> FALSE]
  /\ ev = Event("init", 0, NoReq, NoResp, NoRet, FALSE)
  /\ before = AllAbsent
  /\ song = SongInit
  /\ tabs = TabsInit
  /\ \E size \in {1, 2, DefaultPageSize} :
       grid = [GridInit EXCEPT !.pageSize = size, !.phase = "loading"]

GridFrame ==
  UNCHANGED <<ls, redirecting, now, page, navTarget, navCount, pc, at, userBar,
              logoutPending, lpc, rejected, ev, before, song, tabs>>

\* "change" on the page-size select
GridPageSize(v) ==
  /\ grid.phase # "idle"
  /\ grid' = renderGrid([grid EXCEPT
                !.pageSize = IF ParseInt(v) \in {NaN, 0} THEN DefaultPageSize ELSE ParseInt(v),
                !.page = 1])
  /\ GridFrame

\* click on Prev (not while it is disabled)
GridPrev ==
  /\ grid.phase # "idle"
  /\ ~grid.prevDisabled
  /\ grid' = IF grid.page > 1 THEN renderGrid([grid EXCEPT !.page = @ - 1]) ELSE grid
  /\ GridFrame

\* click on Next (not while it is disabled)
GridNext ==
  /\ grid.phase # "idle"
  /\ ~grid.nextDisabled
  /\ LET totalPages == Max(1, CeilDiv(Len(grid.allSongs), grid.pageSize))
     IN grid' = IF grid.page < totalPages
                THEN renderGrid([grid EXCEPT !.page = @ + 1]) ELSE grid
  /\ GridFrame

\* fetchAllSongs resolved, or threw and the fallback list was taken: the rows
\* are stored, sorted by id descending, and drawn
GridLoaded(rows) ==
  /\ grid.phase = "loading"
  /\ grid' = renderGrid([grid EXCEPT !.allSongs = sortSongs(rows),
                                     !.rows = rows,
                                     !.phase = "loaded"])
  /\ GridFrame

GridStep ==
  \/ \E v \in PageSizeOptions : GridPageSize(v)
  \/ GridPrev
  \/ GridNext
  \/ \E rows \in RowLists : GridLoaded(rows)

SpecGrid == GridStart /\ [][GridStep]_vars


\* ================================================================ properties
\* the stored legs as the claims speak of them, read off the raw keys
StoredATFresh ==
  ls.access # NoItem /\ ls.access # Empty /\ ls.accessExp # NoItem /\ ls.accessExp > now + LEEWAY
StoredRTFresh ==
  ls.refresh # NoItem /\ ls.refresh # Empty /\ ls.refreshExp # NoItem /\ ls.refreshExp > now + LEEWAY

BrowserUnchanged ==
  redirecting' = redirecting /\ navCount' = navCount /\ navTarget' = navTarget

\* C1: with a non-empty stored access token whose access_expires_at is
\* greater than now + 15, ensureAccessToken returns exactly that token,
\* sends no request, calls no redirect and changes no storage key.
C1_FastPath ==
  [][(ev'.act = "ensureCall" /\ StoredATFresh)
       => /\ ev'.ret = ls.access
          /\ ev'.req = NoReq
          /\ ~ev'.redir
          /\ ls' = ls
          /\ BrowserUnchanged]_vars

C1_Witness == ev.act = "ensureCall" /\ ev.ret = ls.access /\ StoredATFresh

\* C2: when access_expires_at <= now + 15 or no access token is stored,
\* ensureAccessToken does not return the cached token: at the call it returns
\* the empty result or awaits a refresh, and after the refresh it returns the
\* token of a successful response or the empty result.
C2_NoStaleToken ==
  [][/\ (ev'.act = "ensureCall" /\ ~StoredATFresh)
          => \/ ev'.ret = Empty
             \/ ev'.ret = NoRet /\ ev'.req.ep = "refresh"
     /\ ev'.act = "ensureResume"
          => \/ ev'.ret = Empty
             \/ respOk(ev'.resp) /\ ev'.ret = ev'.resp.data.access_token]_vars

C2_Witness ==
  /\ ev.act = "ensureCall" /\ ev.ret = Empty
  /\ ls.access # NoItem /\ ls.accessExp = now + LEEWAY

\* C3: a successful refresh response is stored (access token and expiry, and
\* the refresh leg when the server issued one), its access_token is returned
\* and is the stored access token after the call, and no redirect is triggered.
C3_RefreshSuccess ==
  [][(ev'.act = "ensureResume" /\ respOk(ev'.resp))
       => LET d == ev'.resp.data
          IN /\ ls'.access = d.access_token
             /\ ls'.accessExp = d.access_expires_at
             /\ (d.refresh_token # Undefined /\ d.refresh_expires_at # Undefined)
                  => ls'.refresh = d.refresh_token /\ ls'.refreshExp = d.refresh_expires_at
             /\ ev'.ret = d.access_token
             /\ at'[ev'.s] = ls'.access
             /\ ~ev'.redir
             /\ BrowserUnchanged]_vars

C3_Witness ==
  /\ ev.act = "ensureResume" /\ respOk(ev.resp)
  /\ ev.resp.data.refresh_token = Undefined
  /\ ls.access = ev.ret

\* C4: with no valid access token and no valid refresh token (absent, or
\* refresh_expires_at <= now + 15) ensureAccessToken calls the login redirect
\* and returns the empty result without a request; a refresh request is sent
\* only while a refresh token with refresh_expires_at > now + 15 is stored.
C4_NoRefreshToken ==
  [][/\ (ev'.act = "ensureCall" /\ ~StoredATFresh /\ ~StoredRTFresh)
          => ev'.redir /\ redirecting' /\ ev'.ret = Empty /\ ev'.req = NoReq
     /\ ev'.req.ep = "refresh" => StoredRTFresh]_vars

C4_Witness ==
  /\ ev.act = "ensureCall" /\ ev.redir
  /\ ls.refresh # NoItem /\ ls.refreshExp = now + LEEWAY

\* C5: a refresh request that fails (non-success status or thrown network
\* error) makes ensureAccessToken call the login redirect and return the
\* empty result, never a token.
C5_RefreshFailure ==
  [][(ev'.act = "ensureResume" /\ ~respOk(ev'.resp))
       => /\ ev'.redir /\ redirecting'
          /\ ev'.ret = Empty /\ at'[ev'.s] = Empty
          /\ pc'[ev'.s] \in FailedPcs]_vars

C5_Witness ==
  /\ ev.act = "ensureResume" /\ ev.resp.status = 0 /\ ev.ret = Empty
  /\ ls.access # NoItem

\* C6: a guarded page whose init flows have all ended in an auth failure has
\* started a navigation to the login page, whatever the redirect flag was
\* when the page loaded.
C6_FailureNavigates ==
  (page = "home" /\ \A s \in Scripts : pc[s] \in FailedPcs) => navCount >= 1

\* C7: a page instance performs at most one navigation to the login page,
\* over all redirectLogin calls of both init flows and the logout handler.
C7_AtMostOneNavigation == navCount <= 1

\* C8: when both init flows of a page called ensureAccessToken and the
\* refresh endpoint answered 401 to both, exactly one navigation to the login
\* page has been performed.
C8_ExactlyOneOn401 ==
  (page = "home" /\ \A s \in Scripts : pc[s] = "refresh401") => navCount = 1

\* C9: once the refresh endpoint has answered 401, the access token and the
\* refresh token stored at that moment are sent in no later request.
C9_RejectedTokensUnused ==
  [][/\ (ev'.req.ep = "refresh" /\ ev'.req.tok = ls.refresh) => ~rejected.rt
     /\ (ev'.req.ep \in {"me", "logout"} /\ ev'.req.tok = ls.access) => ~rejected.at]_vars

\* C10: a step in which an irrecoverable auth failure is handled (no valid
\* refresh token, refresh rejected, profile fetch rejected) leaves all five
\* session keys absent from local storage.
C10_FailureErasesSession ==
  [][(ev'.act \in {"ensureCall", "ensureResume", "fetchMeFail"} /\ ev'.redir)
       => ls' = AllAbsent]_vars

\* C11: a successful refresh response in which refresh_token or
\* refresh_expires_at is missing leaves the stored refresh token and its
\* expiry as they were, replaces the access token and its expiry by the
\* response's, and ensureAccessToken returns the response's access token.
C11_RefreshLegKept ==
  [][(/\ ev'.act = "ensureResume" /\ respOk(ev'.resp)
      /\ \/ ev'.resp.data.refresh_token = Undefined
         \/ ev'.resp.data.refresh_expires_at = Undefined)
       => /\ ls'.refresh = ls.refresh
          /\ ls'.refreshExp = ls.refreshExp
          /\ ls'.access = ev'.resp.data.access_token
          /\ ls'.accessExp = ev'.resp.data.access_expires_at
          /\ ev'.ret = ev'.resp.data.access_token]_vars

C11_Witness ==
  /\ ev.act = "ensureResume" /\ respOk(ev.resp)
  /\ ev.resp.data.refresh_token # Undefined
  /\ ev.resp.data.refresh_expires_at = Undefined
  /\ ls.refresh # NoItem /\ ls.refresh # ev.resp.data.refresh_token

\* C12: logout erases every cached session key, whatever became of the
\* logout request (success, non-success status, network error, or no request
\* because no access token was stored): when onLogout finishes, none of the
\* keys written by login, signup, refresh or the profile fetch remains.
C12_LogoutErasesAll == [][ev'.act = "logoutDone" => ls' = AllAbsent]_vars

C12_Witness ==
  /\ ev.act = "logoutDone" /\ ev.resp.status = 0
  /\ \A k \in DOMAIN ls : ls[k] = NoItem

\* C13 (as stated): every logout ends with a navigation to the login page,
\* in every state of the redirect flag.
C13_LogoutNavigates == [][ev'.act = "logoutDone" => navTarget'.path = LOGIN_URL]_vars

\* C14: when the profile endpoint answers with a non-success status, fetchMe
\* calls redirectLogin, returns null, and leaves the cached profile unchanged.
C14_ProfileRejected ==
  [][(ev'.act \in {"fetchMeFail", "fetchMeOk", "fetchMeCacheThrew"}
      /\ ev'.resp.status \notin {0, 200})
       => /\ ev'.redir /\ redirecting'
          /\ ev'.ret = NoItem
          /\ pc'[ev'.s] = "meRejected"
          /\ ls' = ls]_vars

C14_Witness ==
  /\ ev.act = "fetchMeFail" /\ ev.resp.status = 401
  /\ ev.ret = NoItem /\ ls.me = Profile

\* C15: when the profile endpoint answers with success, fetchMe returns the
\* profile and stores it under the cached-profile key; when that write throws
\* the failure is swallowed: fetchMe still returns the profile, storage is as
\* it was, and no redirect is triggered.
C15_ProfileOk ==
  [][(ev'.act \in {"fetchMeFail", "fetchMeOk", "fetchMeCacheThrew"}
      /\ respOk(ev'.resp))
       => /\ ev'.ret = Profile
          /\ ~ev'.redir
          /\ navCount' = navCount /\ navTarget' = navTarget
          /\ IF ev'.act = "fetchMeCacheThrew"
             THEN ls' = ls
             ELSE ls' = [ls EXCEPT !.me = Profile]]_vars

C15_Witness ==
  /\ ev.act = "fetchMeCacheThrew" /\ ev.ret = Profile
  /\ ls.me = NoItem /\ navCount = 0

\* C16 (as stated): for every stored token pair whose access_expires_at is
\* at most now + 15, ensureAccessToken sends a request to the refresh endpoint.
StoredPairStale ==
  /\ ls.access # NoItem /\ ls.refresh # NoItem
  /\ ls.accessExp >= 0 /\ ls.accessExp <= now + LEEWAY

C16_AlwaysRefreshes ==
  [][(ev'.act = "ensureCall" /\ StoredPairStale) => ev'.req.ep = "refresh"]_vars

\* C16 (amended): for every stored token pair whose access_expires_at is at
\* most now + 15, ensureAccessToken never reuses the cached access token: it
\* sends the stored refresh token to the refresh endpoint when
\* refresh_expires_at > now + 15, and otherwise calls redirectLogin and
\* returns "" without any request.
C16_RefreshWhenPossible ==
  [][(ev'.act = "ensureCall" /\ StoredPairStale)
       => IF StoredRTFresh
          THEN ev'.req = [ep |-> "refresh", tok |-> ls.refresh] /\ ev'.ret = NoRet
          ELSE ev'.req = NoReq /\ ev'.ret = Empty /\ ev'.redir]_vars

C16_Witness ==
  /\ ev.act = "ensureCall" /\ ev.req.ep = "refresh"
  /\ ls.access # NoItem /\ ls.accessExp >= 0 /\ ls.accessExp <= now + LEEWAY

\* C17 (as stated): whenever no refresh token is cached, ensureAccessToken
\* redirects to login and sends no network request.
C17_NoRTRedirects ==
  [][(ev'.act = "ensureCall" /\ ls.refresh = NoItem)
       => ev'.redir /\ ev'.req = NoReq]_vars

\* C17 (amended): whenever no refresh token is cached, ensureAccessToken sends
\* no network request; it calls redirectLogin and returns "" unless the
\* cached access token is still valid, in which case it returns that token
\* and does not redirect.
C17_NoRTNoRequest ==
  [][(ev'.act = "ensureCall" /\ ls.refresh = NoItem)
       => /\ ev'.req = NoReq
          /\ IF StoredATFresh
             THEN ev'.ret = ls.access /\ ~ev'.redir
             ELSE ev'.ret = Empty /\ ev'.redir /\ redirecting']_vars

C17_Witness ==
  /\ ev.act = "ensureCall" /\ ev.redir /\ ev.req = NoReq
  /\ ls.refresh = NoItem /\ ls.access # NoItem

\* C18 (as stated): within one page load no profile request is in flight
\* while a refresh request is in flight.
C18_ProfileAfterRefresh ==
  \A s, r \in Scripts : ~(pc[s] = "fetchingMe" /\ pc[r] = "refreshing")

\* C19 (as stated): once a page instance has navigated to login it sends no
\* refresh, profile or logout request, writes no token or profile key, and
\* does not change the redirect flag.
C19_RedirectTerminal ==
  [][(page = "home" /\ navCount >= 1 /\ ev'.act \notin {"navCommit", "userLoad"})
       => /\ ev'.req = NoReq
          /\ ls' = ls
          /\ redirecting' = redirecting]_vars

\* C20: a refresh request is sent only by the first half of an
\* ensureAccessToken call, once per call, and never by a page instance in
\* which a refresh attempt has already failed.
C20_NoRetry ==
  [][ev'.req.ep = "refresh"
       => /\ ev'.act = "ensureCall"
          /\ pc[ev'.s] = "wait" /\ pc'[ev'.s] = "refreshing"
          /\ \A r \in Scripts : pc[r] \notin {"refresh401", "refreshFailed"}]_vars

C20_Witness ==
  /\ ev.act = "ensureResume" /\ ~respOk(ev.resp)
  /\ pc[1] = "refreshFailed" /\ pc[2] = "refreshing"

\* C21 (as stated): once the profile endpoint has rejected a token on a page
\* load, that page load never reaches the authenticated outcome: the redirect
\* flag is not cleared and no init flow goes on to inject the user bar and
\* load the songs grid.
C21_RejectionFinal ==
  [][(/\ page = "home"
      /\ \E s \in Scripts : pc[s] = "meRejected"
      /\ ev'.act \notin {"navCommit", "userLoad"})
       => /\ redirecting => redirecting'
          /\ \A r \in Scripts :
               pc'[r] \in {"songs", "authenticated"}
                 => pc[r] \in {"songs", "authenticated"}]_vars

\* C24: every navigation issued by redirectLogin goes to the configured login
\* URL and carries in "from" the page the redirect started on.
C24_RedirectTarget ==
  [][(ev'.redir /\ navCount' = navCount + 1)
       => navTarget' = Url(LOGIN_URL, page)]_vars

C24_Witness ==
  /\ navCount = 1 /\ ev.redir /\ ev.act = "logoutDone"
  /\ navTarget = Url("login", "home")

\* C25: redirectLogin sets the redirect flag whenever it navigates, and the
\* flag is removed only by an init flow whose ensureAccessToken gave a token
\* and whose fetchMe returned a profile; no failure path, logout or login
\* removes it.
C25_FlagLifecycle ==
  [][/\ navCount' > navCount => redirecting'
     /\ (redirecting /\ ~redirecting')
          => /\ ev'.act \in {"fetchMeOk", "fetchMeCacheThrew"}
             /\ ev'.ret = Profile
             /\ pc[ev'.s] = "fetchingMe"]_vars

C25_Witness ==
  /\ page = "home" /\ navCount >= 1 /\ ~redirecting
  /\ ev.act = "fetchMeOk"

\* C27 (as stated): the two init flows of one load of the home page never
\* both have a refresh request in flight, nor both a profile request.
C27_OneRequestPerLoad ==
  /\ ~(pc[1] = "refreshing" /\ pc[2] = "refreshing")
  /\ ~(pc[1] = "fetchingMe" /\ pc[2] = "fetchingMe")

\* C22 (as stated): after a successful login or auto-login the refresh token
\* and its expiry are in local storage if and only if the user chose
\* persistent login; otherwise both keys are absent.
C22_RefreshIffPersist ==
  [][ev'.act \in {"loginOk", "signupLoginOk"}
       => IF ev'.persist
          THEN ls'.refresh # NoItem /\ ls'.refreshExp # NoItem
          ELSE ls'.refresh = NoItem /\ ls'.refreshExp = NoItem]_vars

\* C23 (as stated): a login or signup attempt that ends by showing an error
\* leaves the four token keys as they were when the attempt began.
TokenKeys(st) == <<st.access, st.accessExp, st.refresh, st.refreshExp>>

C23_ErrorLeavesTokens ==
  [][ev'.act \in {"loginError", "signupError"}
       => TokenKeys(ls') = TokenKeys(before)]_vars

\* C26: nothing coordinates the refresh of two tabs: both can have sent the
\* same refresh token, and local storage holds the tokens of whichever
\* response was handed to saveTokens last (the refresh leg when it carried one).
C26_LastSavedWins ==
  tabs.saved # <<>> =>
    LET d == tabs.saved[Len(tabs.saved)].data
    IN /\ ls.access = d.access_token
       /\ ls.accessExp = StringOf(d.access_expires_at)
       /\ (Truthy(d.refresh_token) /\ Truthy(d.refresh_expires_at))
            => /\ ls.refresh = d.refresh_token
               /\ ls.refreshExp = StringOf(d.refresh_expires_at)

C26_Witness ==
  /\ Len(tabs.saved) = 2
  /\ tabs.saved[1].tab # tabs.saved[2].tab
  /\ \E s1, s2 \in Scripts :
       /\ tabs.t[1].sent[s1] # Empty
       /\ tabs.t[1].sent[s1] = tabs.t[2].sent[s2]
  /\ \A t \in Tabs, s \in Scripts : tabs.t[t].pc[s] # "refreshing"
  /\ ls.access = tabs.saved[2].data.access_token
  /\ ls.access # tabs.saved[1].data.access_token

\* C28 (as stated): on the song page, once no list request is pending,
\* state.page >= 1 and, when state.list is not empty,
\* 0 <= state.indexInPage < state.list.length.
C28_IndexInList ==
  song.pending = {} =>
    /\ song.page >= 1
    /\ song.list # <<>> => (0 <= song.indexInPage /\ song.indexInPage < Len(song.list))

\* C29 (as stated): on the song page, once no list request is pending,
\* state.list is the answer to the request that was issued last.
C29_LatestResponseShown ==
  song.pending = {} => song.list = song.latest

\* C30: on the home page grid, 1 <= state.page <= max(1, ceil(total / pageSize)),
\* what renderGrid drew is the songs at positions (page-1)*pageSize up to
\* min(page*pageSize, total) of state.allSongs, and state.allSongs is the
\* loaded rows in descending order of song id.
Count(seq, x) == Cardinality({i \in 1..Len(seq) : seq[i] = x})

C30_GridWindow ==
  LET total == Len(grid.allSongs)
      first == (grid.page - 1) * grid.pageSize
  IN /\ 1 <= grid.page
     /\ grid.page <= Max(1, CeilDiv(total, grid.pageSize))
     /\ Len(grid.rendered) = Min(grid.page * grid.pageSize, total) - first
     /\ \A i \in 1..Len(grid.rendered) : grid.rendered[i] = grid.allSongs[first + i]
     /\ \A i \in 1..total : \A j \in 1..total :
          i < j => grid.allSongs[i] >= grid.allSongs[j]
     /\ total = Len(grid.rows)
     /\ \A x \in 1..MaxRows : Count(grid.allSongs, x) = Count(grid.rows, x)

C30_Witness ==
  /\ grid.phase = "loaded"
  /\ grid.rows # grid.allSongs
  /\ grid.pageSize = 2 /\ grid.page = 2
  /\ Len(grid.rendered) = 1

====
